---- MODULE Spec2Model ----
(***************************************************************************)
(* A model of b12_submit.py: one run of main(), from the reads of the      *)
(* process environment to the process exit.                                *)
(*                                                                         *)
(* Text is a sequence of one-character strings ("U+00E9" stands for the    *)
(* one non-ASCII character of the model), bytes are numbers in 0..255.     *)
(* SHA-256 is replaced by a 15-bit polynomial hash; the HMAC               *)
(* construction around it (key block, inner and outer pad) is the real     *)
(* one.  A response body is a sequence of JSON lexemes.                    *)
(***************************************************************************)
EXTENDS Integers, Sequences, FiniteSets, TLC

\* ---------------------------------------------------------------- bounds

\* Longest run of whitespace put before and after an environment value.
MaxPad == 1

\* ------------------------------------------------------------------ text

Printable ==
  << " ", "!", "\"", "#", "$", "%", "&", "'", "(", ")", "*", "+", ",", "-", ".", "/",
     "0", "1", "2", "3", "4", "5", "6", "7", "8", "9", ":", ";", "<", "=", ">", "?",
     "@", "A", "B", "C", "D", "E", "F", "G", "H", "I", "J", "K", "L", "M", "N", "O",
     "P", "Q", "R", "S", "T", "U", "V", "W", "X", "Y", "Z", "[", "\\", "]", "^", "_",
     "U+0060", "a", "b", "c", "d", "e", "f", "g", "h", "i", "j", "k", "l", "m", "n", "o",
     "p", "q", "r", "s", "t", "u", "v", "w", "x", "y", "z", "{", "|", "}", "~" >>

\* The code point of a character.
Ord(c) ==
  IF c = "\t" THEN 9
  ELSE IF c = "\n" THEN 10
  ELSE IF c = "U+00E9" THEN 233
  ELSE 31 + (CHOOSE i \in 1..Len(Printable) : Printable[i] = c)

\* str.encode("utf-8") of one character: two bytes above U+007F.
Utf8Char(c) ==
  IF Ord(c) < 128 THEN << Ord(c) >>
  ELSE << 192 + (Ord(c) \div 64), 128 + (Ord(c) % 64) >>

\* str.encode("utf-8"), the text taken by halves
RECURSIVE EncodeUtf8(_)
EncodeUtf8(s) ==
  IF s = << >> THEN << >>
  ELSE IF Len(s) = 1 THEN Utf8Char(s[1])
  ELSE LET m == Len(s) \div 2
       IN  EncodeUtf8(SubSeq(s, 1, m)) \o EncodeUtf8(SubSeq(s, m + 1, Len(s)))

\* The characters str.strip() removes (the ones the model's inputs use).
Whitespace == { " ", "\t" }

RECURSIVE LStrip(_)
LStrip(s) ==
  IF s # << >> /\ Head(s) \in Whitespace THEN LStrip(Tail(s)) ELSE s

RECURSIVE RStrip(_)
RStrip(s) ==
  IF s # << >> /\ s[Len(s)] \in Whitespace
  THEN RStrip(SubSeq(s, 1, Len(s) - 1))
  ELSE s

\* str.lstrip() in the place of str.strip()
StripLeft(s) == LStrip(s)

\* str.strip()
Strip(s) == RStrip(LStrip(s))

IsPrefix(p, s) == Len(p) <= Len(s) /\ SubSeq(s, 1, Len(p)) = p

\* str.replace(old, new), old non-empty
RECURSIVE Replace(_, _, _)
Replace(s, old, new) ==
  IF s = << >> THEN << >>
  ELSE IF IsPrefix(old, s)
       THEN new \o Replace(SubSeq(s, Len(old) + 1, Len(s)), old, new)
       ELSE << Head(s) >> \o Replace(Tail(s), old, new)

\* Python's order on str: by code point, a proper prefix first.
RECURSIVE StrLess(_, _)
StrLess(a, b) ==
  IF b = << >> THEN FALSE
  ELSE IF a = << >> THEN TRUE
  ELSE IF Ord(Head(a)) # Ord(Head(b)) THEN Ord(Head(a)) < Ord(Head(b))
  ELSE StrLess(Tail(a), Tail(b))

\* ----------------------------------------------------------- environment

\* An environment variable: unset, or set to a text.
Unset == [set |-> FALSE, value |-> << >>]

EnvSet(v) == [set |-> TRUE, value |-> v]

\* os.getenv(name, default)
Getenv(entry, default) == IF entry.set THEN entry.value ELSE default

V_B12_NAME == << "B", "1", "2", "_", "N", "A", "M", "E" >>
V_B12_EMAIL == << "B", "1", "2", "_", "E", "M", "A", "I", "L" >>
V_B12_RESUME_LINK ==
  << "B", "1", "2", "_", "R", "E", "S", "U", "M", "E", "_", "L", "I", "N", "K" >>
V_GITHUB_SERVER_URL ==
  << "G", "I", "T", "H", "U", "B", "_", "S", "E", "R", "V", "E", "R", "_", "U", "R", "L" >>
V_GITHUB_REPOSITORY ==
  << "G", "I", "T", "H", "U", "B", "_", "R", "E", "P", "O", "S", "I", "T", "O", "R", "Y" >>
V_GITHUB_RUN_ID ==
  << "G", "I", "T", "H", "U", "B", "_", "R", "U", "N", "_", "I", "D" >>
V_B12_SIGNING_SECRET ==
  << "B", "1", "2", "_", "S", "I", "G", "N", "I", "N", "G", "_", "S", "E", "C", "R", "E", "T" >>

\* The required variables, in the order main() reads them.
RequiredVars ==
  << V_B12_NAME, V_B12_EMAIL, V_B12_RESUME_LINK,
     V_GITHUB_SERVER_URL, V_GITHUB_REPOSITORY, V_GITHUB_RUN_ID >>

ExServerUrl ==
  << "h", "t", "t", "p", "s", ":", "/", "/", "g", "i", "t", "h", "u", "b", ".", "c", "o", "m" >>
ExRepo == << "a", "c", "m", "e", "/", "w", "i", "d", "g", "e", "t" >>
ExRunId == << "1", "2", "3", "4", "5" >>

\* The texts an environment value is built around: none, or one of these.
Cores(name) ==
  IF name = V_B12_NAME THEN { << "Z", "o", "U+00E9" >>, << "a", " ", "\"", "b" >> }
  ELSE IF name = V_B12_EMAIL THEN { << "z", "@", "b", ".", "i", "o" >> }
  ELSE IF name = V_B12_RESUME_LINK THEN { << "h", "t", "t", "p", ":", "/", "/", "r" >> }
  ELSE IF name = V_GITHUB_SERVER_URL THEN { ExServerUrl, << "h", "\\", "/" >> }
  ELSE IF name = V_GITHUB_REPOSITORY THEN { ExRepo, << "/", "r", "\t", "r" >> }
  ELSE IF name = V_GITHUB_RUN_ID THEN { ExRunId, << "x", " ", "y" >> }
  ELSE { << "k", "3", "y" >> }

Pads == UNION { [1..k -> Whitespace] : k \in 0..MaxPad }

\* What a variable of the environment may hold: unset, whitespace only (or
\* empty), or a text with whitespace around it.
EnvValues(name) ==
  { Unset } \cup
  { EnvSet(l \o c \o r) : l \in Pads, r \in Pads, c \in Cores(name) \cup { << >> } }

\* ------------------------------------------------------------- timestamp

Digit(n) == Printable[17 + n]

\* The three digits of timespec="milliseconds".
Millis3(ms) == << Digit(ms \div 100), Digit((ms \div 10) % 10), Digit(ms % 10) >>

UtcOffset == << "+", "0", "0", ":", "0", "0" >>

\* datetime.isoformat(timespec="milliseconds") of an instant in UTC.
Isoformat(now) == now.second \o << "." >> \o Millis3(now.ms) \o UtcOffset

\* The instants datetime.now() may return.
Instants ==
  { [second |-> << "2", "0", "2", "6", "-", "0", "1", "-", "0", "6", "T",
                   "1", "6", ":", "5", "9", ":", "3", "7" >>,
     ms |-> m] : m \in { 7, 571 } }

iso8601_utc_now_ms(now) == Replace(Isoformat(now), UtcOffset, << "Z" >>)

\* --------------------------------------------------------------- payload

K_timestamp == << "t", "i", "m", "e", "s", "t", "a", "m", "p" >>
K_name == << "n", "a", "m", "e" >>
K_email == << "e", "m", "a", "i", "l" >>
K_resume_link == << "r", "e", "s", "u", "m", "e", "_", "l", "i", "n", "k" >>
K_repository_link ==
  << "r", "e", "p", "o", "s", "i", "t", "o", "r", "y", "_", "l", "i", "n", "k" >>
K_action_run_link ==
  << "a", "c", "t", "i", "o", "n", "_", "r", "u", "n", "_", "l", "i", "n", "k" >>

ActionsRuns == << "/", "a", "c", "t", "i", "o", "n", "s", "/", "r", "u", "n", "s", "/" >>

\* f"{server_url}/{repo}"
RepositoryLink(server_url, repo) == server_url \o << "/" >> \o repo

\* The run link without the repository in it.
ActionRunLinkNoRepo(server_url, repo, run_id) == server_url \o ActionsRuns \o run_id

\* f"{server_url}/{repo}/actions/runs/{run_id}"
ActionRunLink(server_url, repo, run_id) ==
  server_url \o << "/" >> \o repo \o ActionsRuns \o run_id

Pair(k, v) == [k |-> k, v |-> v]

\* The dict literal of main(), its items in insertion order.  r is the
\* sequence of the six resolved values, in the order of RequiredVars.
Payload(r, now) ==
  << Pair(K_timestamp, iso8601_utc_now_ms(now)),
     Pair(K_name, r[1]),
     Pair(K_email, r[2]),
     Pair(K_resume_link, r[3]),
     Pair(K_repository_link, RepositoryLink(r[4], r[5])),
     Pair(K_action_run_link, ActionRunLink(r[4], r[5], r[6])) >>

Lookup(items, k) == (CHOOSE i \in 1..Len(items) : items[i].k = k)

Keys(items) == { items[i].k : i \in 1..Len(items) }

Value(items, k) == items[Lookup(items, k)].v

\* ------------------------------------------------------------ serializer

RECURSIVE Insert(_, _)
Insert(item, sorted) ==
  IF sorted = << >> THEN << item >>
  ELSE IF StrLess(item.k, Head(sorted).k) THEN << item >> \o sorted
  ELSE << Head(sorted) >> \o Insert(item, Tail(sorted))

\* sort_keys=True
RECURSIVE SortItems(_)
SortItems(items) ==
  IF items = << >> THEN << >> ELSE Insert(Head(items), SortItems(Tail(items)))

\* One character inside a JSON string, ensure_ascii=False.
JsonChar(c) ==
  IF c = "\"" THEN << "\\", "\"" >>
  ELSE IF c = "\\" THEN << "\\", "\\" >>
  ELSE IF c = "\t" THEN << "\\", "t" >>
  ELSE IF c = "\n" THEN << "\\", "n" >>
  ELSE << c >>

RECURSIVE JsonChars(_)
JsonChars(s) ==
  IF s = << >> THEN << >>
  ELSE IF Len(s) = 1 THEN JsonChar(s[1])
  ELSE LET m == Len(s) \div 2
       IN  JsonChars(SubSeq(s, 1, m)) \o JsonChars(SubSeq(s, m + 1, Len(s)))

JsonString(s) == << "\"" >> \o JsonChars(s) \o << "\"" >>

\* separators=(",", ":")
RECURSIVE JsonItems(_)
JsonItems(items) ==
  IF items = << >> THEN << >>
  ELSE JsonString(Head(items).k) \o << ":" >> \o JsonString(Head(items).v)
       \o (IF Tail(items) = << >> THEN << >> ELSE << "," >> \o JsonItems(Tail(items)))

\* json.dumps(payload, sort_keys=True, separators=(",", ":"), ensure_ascii=False)
Dumps(items) == << "{" >> \o JsonItems(SortItems(items)) \o << "}" >>

\* ---------------------------------------------------------------- signer

\* The bytes of a block of the hash (SHA-256: 64).
BlockSize == 64

RECURSIVE Xor(_, _)
Xor(a, b) ==
  IF a = 0 /\ b = 0 THEN 0
  ELSE (((a % 2) + (b % 2)) % 2) + 2 * Xor(a \div 2, b \div 2)

\* 33^n modulo 2^15
RECURSIVE Pow33(_)
Pow33(n) ==
  IF n = 0 THEN 1
  ELSE LET r == Pow33(n \div 2)
       IN  (((r * r) % 32768) * (IF n % 2 = 1 THEN 33 ELSE 1)) % 32768

\* bytes[lo] * 33^(hi-lo) + ... + bytes[hi], modulo 2^15
RECURSIVE Poly(_, _, _)
Poly(bytes, lo, hi) ==
  IF lo > hi THEN 0
  ELSE IF lo = hi THEN bytes[lo]
  ELSE LET mid == (lo + hi) \div 2
       IN  (Poly(bytes, lo, mid) * Pow33(hi - mid) + Poly(bytes, mid + 1, hi)) % 32768

\* h := h * 33 + b (modulo 2^15) over every byte b, from h
HashFrom(h, bytes) == (h * Pow33(Len(bytes)) + Poly(bytes, 1, Len(bytes))) % 32768

\* The digest of a byte sequence, as bytes (stands for SHA-256).
Hash(bytes) ==
  LET h == HashFrom(5381, bytes) IN << h \div 256, h % 256 >>

\* The key as one block: hashed when longer than a block, then zero-padded.
KeyBlock(key) ==
  LET k == IF Len(key) > BlockSize THEN Hash(key) ELSE key
  IN  [i \in 1..BlockSize |-> IF i <= Len(k) THEN k[i] ELSE 0]

XorPad(block, pad) == [i \in 1..Len(block) |-> Xor(block[i], pad)]

\* hmac.new(key, msg, hashlib.sha256).digest()
Hmac(key, msg) ==
  LET blk == KeyBlock(key)
  IN  Hash(XorPad(blk, 92) \o Hash(XorPad(blk, 54) \o msg))

HexDigits ==
  << "0", "1", "2", "3", "4", "5", "6", "7", "8", "9", "a", "b", "c", "d", "e", "f" >>

RECURSIVE Hex(_)
Hex(bytes) ==
  IF bytes = << >> THEN << >>
  ELSE << HexDigits[(Head(bytes) \div 16) + 1], HexDigits[(Head(bytes) % 16) + 1] >>
       \o Hex(Tail(bytes))

\* hmac.new(key, msg, hashlib.sha256).hexdigest()
HexDigest(key, msg) == Hex(Hmac(key, msg))

FallbackSecret ==
  << "h", "e", "l", "l", "o", "-", "t", "h", "e", "r", "e", "-",
     "f", "r", "o", "m", "-", "b", "1", "2" >>

\* os.getenv(...) or the fallback: an empty secret replaced too.
SigningSecretOrFallback(entry) ==
  EncodeUtf8(IF entry.set /\ entry.value # << >> THEN entry.value ELSE FallbackSecret)

\* os.getenv("B12_SIGNING_SECRET", "hello-there-from-b12").encode("utf-8")
SigningSecret(entry) == EncodeUtf8(Getenv(entry, FallbackSecret))

Sha256Prefix == << "s", "h", "a", "2", "5", "6", "=" >>

\* f"sha256={digest}"
SignatureHeader(digest) == Sha256Prefix \o digest

\* -------------------------------------------------------------- response

\* A lexeme of a response body: a JSON string (q) or any other token.
P(text) == [q |-> FALSE, text |-> text]

Q(text) == [q |-> TRUE, text |-> text]

\* A byte sequence that is not UTF-8, and what errors="replace" puts for it.
InvalidByte == P("\\xff")

ReplacementChar == P("U+FFFD")

\* bytes.decode("utf-8"): raises on an invalid byte.
DecodeRaises(bytes) == \E i \in 1..Len(bytes) : bytes[i] = InvalidByte

\* bytes.decode("utf-8", errors="replace")
DecodeReplace(bytes) ==
  [i \in 1..Len(bytes) |-> IF bytes[i] = InvalidByte THEN ReplacementChar ELSE bytes[i]]

\* A parsed JSON value as Python holds it: t is its type, s its str() when
\* it is a scalar, keys and vals the items of a dict (vals those of a list).
PyValue(t, s, keys, vals) == [t |-> t, s |-> s, keys |-> keys, vals |-> vals]

None == PyValue("NoneType", "None", << >>, << >>)

PyBool(b) == PyValue("bool", IF b THEN "True" ELSE "False", << >>, << >>)

PyInt(text) == PyValue("int", text, << >>, << >>)

PyStr(text) == PyValue("str", text, << >>, << >>)

PyList(vals) == PyValue("list", "", << >>, vals)

PyDict(keys, vals) == PyValue("dict", "", keys, vals)

\* dict[k] = v: a repeated key keeps its place and takes the last value.
DictSet(d, k, v) ==
  IF \E i \in 1..Len(d.keys) : d.keys[i] = k
  THEN PyDict(d.keys, [i \in 1..Len(d.keys) |-> IF d.keys[i] = k THEN v ELSE d.vals[i]])
  ELSE PyDict(Append(d.keys, k), Append(d.vals, v))

ParseFail == [ok |-> FALSE, val |-> None, next |-> 0]

Parsed(val, next) == [ok |-> TRUE, val |-> val, next |-> next]

Tok(toks, i) == IF i <= Len(toks) THEN toks[i] ELSE P("")

RECURSIVE ParseValue(_, _)
RECURSIVE ParseElements(_, _, _)
RECURSIVE ParseMembers(_, _, _)

\* The elements of an array after "[" or ",", up to and with "]".
ParseElements(toks, i, acc) ==
  LET r == ParseValue(toks, i) IN
  IF ~r.ok THEN ParseFail
  ELSE IF Tok(toks, r.next) = P(",")
       THEN ParseElements(toks, r.next + 1, Append(acc, r.val))
  ELSE IF Tok(toks, r.next) = P("]")
       THEN Parsed(PyList(Append(acc, r.val)), r.next + 1)
  ELSE ParseFail

\* The members of an object after "{" or ",", up to and with "}".
ParseMembers(toks, i, acc) ==
  IF ~(Tok(toks, i).q /\ Tok(toks, i + 1) = P(":")) THEN ParseFail
  ELSE LET r == ParseValue(toks, i + 2) IN
       IF ~r.ok THEN ParseFail
       ELSE IF Tok(toks, r.next) = P(",")
            THEN ParseMembers(toks, r.next + 1, DictSet(acc, toks[i].text, r.val))
       ELSE IF Tok(toks, r.next) = P("}")
            THEN Parsed(DictSet(acc, toks[i].text, r.val), r.next + 1)
       ELSE ParseFail

ParseValue(toks, i) ==
  LET t == Tok(toks, i) IN
  IF i > Len(toks) THEN ParseFail
  ELSE IF t.q THEN Parsed(PyStr(t.text), i + 1)
  ELSE IF t = P("true") THEN Parsed(PyBool(TRUE), i + 1)
  ELSE IF t = P("false") THEN Parsed(PyBool(FALSE), i + 1)
  ELSE IF t = P("null") THEN Parsed(None, i + 1)
  ELSE IF t \in { P("0"), P("1") } THEN Parsed(PyInt(t.text), i + 1)
  ELSE IF t = P("[")
       THEN IF Tok(toks, i + 1) = P("]") THEN Parsed(PyList(<< >>), i + 2)
            ELSE ParseElements(toks, i + 1, << >>)
  ELSE IF t = P("{")
       THEN IF Tok(toks, i + 1) = P("}") THEN Parsed(PyDict(<< >>, << >>), i + 2)
            ELSE ParseMembers(toks, i + 1, PyDict(<< >>, << >>))
  ELSE ParseFail

\* Whitespace between the tokens of a JSON text is skipped.
SkipSpace(toks) == SelectSeq(toks, LAMBDA t : t # P(" "))

\* json.loads(text): ok is FALSE where it raises JSONDecodeError (no value,
\* or text after the value).
json_loads(text) ==
  LET toks == SkipSpace(text)
      r == ParseValue(toks, 1)
  IN  IF r.ok /\ r.next = Len(toks) + 1 THEN r ELSE ParseFail

\* bool(v)
Truthy(v) ==
  IF v.t = "bool" THEN v.s = "True"
  ELSE IF v.t = "int" THEN v.s # "0"
  ELSE IF v.t = "str" THEN v.s # ""
  ELSE IF v.t = "list" THEN v.vals # << >>
  ELSE IF v.t = "dict" THEN v.keys # << >>
  ELSE FALSE

\* k in d
HasKey(d, k) == \E i \in 1..Len(d.keys) : d.keys[i] = k

\* d[k]
DictItem(d, k) == d.vals[CHOOSE i \in 1..Len(d.keys) : d.keys[i] = k]

\* d.get(k)
DictGet(d, k) == IF HasKey(d, k) THEN DictItem(d, k) ELSE None

\* Only a dict has a get method.
HasGet(v) == v.t = "dict"

\* The condition on data without its first half.
RejectedReceiptOnly(d) == ~HasKey(d, "receipt")

\* not data.get("success") or "receipt" not in data
Rejected(d) == ~Truthy(DictGet(d, "success")) \/ ~HasKey(d, "receipt")

Obj(toks) == << P("{") >> \o toks \o << P("}") >>

SuccessTrue == << Q("success"), P(":"), P("true") >>

ReceiptX == << Q("receipt"), P(":"), Q("x") >>

\* The body of the specification's stub: {"success": true, "receipt": "abc-123"}
ExBody ==
  Obj(<< Q("success"), P(":"), P(" "), P("true"), P(","), P(" "),
         Q("receipt"), P(":"), P(" "), Q("abc-123") >>)

JsonObjectBodies ==
  { ExBody,
    Obj(<< Q("success"), P(":"), P("false") >>),
    Obj(ReceiptX),
    Obj(<< Q("success"), P(":"), P("false"), P(",") >> \o ReceiptX),
    Obj(SuccessTrue),
    Obj(<< >>),
    Obj(<< Q("success"), P(":"), P("1"), P(","), Q("receipt"), P(":"), P("null") >>),
    Obj(<< Q("success"), P(":"), P("0"), P(",") >> \o ReceiptX),
    Obj(<< Q("success"), P(":"), Q(""), P(",") >> \o ReceiptX),
    Obj(<< Q("success"), P(":"), P("["), P("]"), P(",") >> \o ReceiptX),
    Obj(<< Q("success"), P(":"), P("["), P("0"), P("]"), P(","),
           Q("receipt"), P(":"), P("{"), Q("id"), P(":"), P("1"), P("}") >>),
    Obj(SuccessTrue \o << P(","), Q("success"), P(":"), P("null"), P(",") >> \o ReceiptX) }

JsonOtherBodies ==
  { << P("["), P("]") >>,
    << P("["), P("true"), P(","), Q("x"), P("]") >>,
    << Q("abc-123") >>,
    << P("1") >>,
    << P("0") >>,
    << P("true") >>,
    << P("null") >> }

NonJsonBodies ==
  { << >>,
    << P("<html>") >>,
    << P("server"), P(" "), P("error") >>,
    << P("{") >> \o SuccessTrue \o << P(",") >>,
    Obj(SuccessTrue \o << P(",") >> \o ReceiptX) \o << P("}") >>,
    << P("["), P("1"), P(","), P("]") >>,
    Obj(<< P("1"), P(":"), P("1") >>) }

UndecodableBodies == { << P("{"), InvalidByte, P("}") >> }

\* What the endpoint may answer with a 2xx status.
ResponseBodies ==
  JsonObjectBodies \cup JsonOtherBodies \cup NonJsonBodies \cup UndecodableBodies

\* What the endpoint may answer with an error status.
ErrorBodies ==
  { << P("server"), P(" "), P("error") >>, ExBody, << >>, << P("bad"), InvalidByte >> }

ErrorCodes == { 404, 500 }

OkCodes == { 200, 201 }

\* ----------------------------------------------------------------- state

VARIABLES
  pc,               \* the statement of main() that runs next, "exit" after the process has ended
  getenv_name,      \* the variable the last os.getenv call read
  getenv_entry,     \* and what the environment held for it
  resolved,         \* name, email, resume_link, server_url, repo, run_id, as far as assigned
  payload,
  body_str,
  body_bytes,
  signing_secret,
  digest,
  signature_header,
  req,
  dumps_calls,      \* the calls of json.dumps so far
  hmac_msg,         \* the messages given to hmac.new so far
  network,          \* the requests urlopen has sent so far
  response,         \* what the last of them was answered with
  resp_body,
  data,
  stdout,           \* the objects printed
  stderr,           \* the message the process ended with
  exit_code         \* << >> while the process runs, then its exit status

vars ==
  << pc, getenv_name, getenv_entry, resolved, payload, body_str, body_bytes,
     signing_secret, digest, signature_header, req, dumps_calls, hmac_msg, network,
     response, resp_body, data, stdout, stderr, exit_code >>

B12_ENDPOINT == "https://b12.io/apply/submission"

\* urlopen(req, timeout=30)
Timeout == 30

NoRequest ==
  [url |-> "", data |-> << >>, method |-> "", content_type |-> "", x_signature_256 |-> << >>]

\* What the process writes to stderr as it ends: the f-string (or the
\* traceback of an uncaught exception) and the values put into it.
Message(text, name, code, body, value) ==
  [text |-> text, name |-> name, code |-> code, body |-> body, value |-> value]

NoMessage == Message("", << >>, 0, << >>, None)

Traceback(exception) == Message("Traceback (most recent call last)", << >>, 0, << >>, PyStr(exception))

\* The answer to a request: an HTTP response (2xx), an HTTPError (any other
\* status) or a URLError (no answer).
Answer(kind, status, body) == [kind |-> kind, status |-> status, body |-> body]

NoResponse == Answer("none", 0, << >>)

Init ==
  /\ pc = "require_env"
  /\ getenv_name = << >>
  /\ getenv_entry = Unset
  /\ resolved = << >>
  /\ payload = << >>
  /\ body_str = << >>
  /\ body_bytes = << >>
  /\ signing_secret = << >>
  /\ digest = << >>
  /\ signature_header = << >>
  /\ req = NoRequest
  /\ dumps_calls = 0
  /\ hmac_msg = << >>
  /\ network = << >>
  /\ response = NoResponse
  /\ resp_body = << >>
  /\ data = None
  /\ stdout = << >>
  /\ stderr = NoMessage
  /\ exit_code = << >>

\* raise SystemExit(message), and an uncaught exception: the message goes to
\* stderr and the exit status is 1.
Die(message) ==
  /\ pc' = "exit"
  /\ stderr' = message
  /\ exit_code' = << 1 >>

\* require_env without the strip().
RequireEnvUnstripped(entry) ==
  LET v == Getenv(entry, << >>) IN [raised |-> v = << >>, v |-> v]

\* require_env(name), given what the environment holds for name
require_env(entry) ==
  LET v == Strip(Getenv(entry, << >>)) IN [raised |-> v = << >>, v |-> v]

\* One of the six require_env calls of main().
RequireEnv ==
  /\ pc = "require_env"
  /\ LET name == RequiredVars[Len(resolved) + 1] IN
     \E entry \in EnvValues(name) :
       LET r == require_env(entry) IN
       /\ getenv_name' = name
       /\ getenv_entry' = entry
       /\ IF r.raised
          THEN /\ Die(Message("Missing required env var: {name}", name, 0, << >>, None))
               /\ UNCHANGED resolved
          ELSE /\ resolved' = Append(resolved, r.v)
               /\ pc' = IF Len(resolved) + 1 = Len(RequiredVars) THEN "payload" ELSE "require_env"
               /\ UNCHANGED << stderr, exit_code >>
  /\ UNCHANGED << payload, body_str, body_bytes, signing_secret, digest, signature_header,
                  req, dumps_calls, hmac_msg, network, response, resp_body, data, stdout >>

\* The two links and the payload dict.
BuildPayload ==
  /\ pc = "payload"
  /\ \E now \in Instants : payload' = Payload(resolved, now)
  /\ pc' = "dumps"
  /\ UNCHANGED << getenv_name, getenv_entry, resolved, body_str, body_bytes, signing_secret,
                  digest, signature_header, req, dumps_calls, hmac_msg, network, response,
                  resp_body, data, stdout, stderr, exit_code >>

\* body_str and body_bytes
Serialize ==
  /\ pc = "dumps"
  /\ body_str' = Dumps(payload)
  /\ body_bytes' = EncodeUtf8(body_str')
  /\ dumps_calls' = dumps_calls + 1
  /\ pc' = "sign"
  /\ UNCHANGED << getenv_name, getenv_entry, resolved, payload, signing_secret, digest,
                  signature_header, req, hmac_msg, network, response, resp_body, data, stdout,
                  stderr, exit_code >>

\* What B12_SIGNING_SECRET may hold.
SecretValues ==
  { Unset, EnvSet(<< >>), EnvSet(<< " " >>), EnvSet(<< "\t", " " >>),
    EnvSet(<< "k", "3", "y" >>), EnvSet(<< " ", "k", "U+00E9", "y", " " >>) }

\* The message main() gives to hmac.new.
SignedMessage(str, bytes) == bytes

\* signing_secret, digest and signature_header
Sign ==
  /\ pc = "sign"
  /\ \E entry \in SecretValues :
       /\ getenv_name' = V_B12_SIGNING_SECRET
       /\ getenv_entry' = entry
       /\ signing_secret' = SigningSecret(entry)
  /\ hmac_msg' = Append(hmac_msg, SignedMessage(body_str, body_bytes))
  /\ digest' = HexDigest(signing_secret', SignedMessage(body_str, body_bytes))
  /\ signature_header' = SignatureHeader(digest')
  /\ pc' = "request"
  /\ UNCHANGED << resolved, payload, body_str, body_bytes, req, dumps_calls, network,
                  response, resp_body, data, stdout, stderr, exit_code >>

\* The request with the payload serialized again, its keys as inserted.
RequestReserialized(items, bytes, header) ==
  [url |-> B12_ENDPOINT, data |-> EncodeUtf8(JsonItems(items)), method |-> "POST",
   content_type |-> "application/json; charset=utf-8", x_signature_256 |-> header]

\* urllib.request.Request(B12_ENDPOINT, data=body_bytes, method="POST", headers=...)
Request(items, bytes, header) ==
  [url |-> B12_ENDPOINT, data |-> bytes, method |-> "POST",
   content_type |-> "application/json; charset=utf-8", x_signature_256 |-> header]

BuildRequest ==
  /\ pc = "request"
  /\ req' = Request(payload, body_bytes, signature_header)
  /\ pc' = "urlopen"
  /\ UNCHANGED << getenv_name, getenv_entry, resolved, payload, body_str, body_bytes,
                  signing_secret, digest, signature_header, dumps_calls, hmac_msg, network,
                  response, resp_body, data, stdout, stderr, exit_code >>

\* urlopen sends the request once, waiting at most Timeout seconds.
Sent == Append(network, [request |-> req, timeout |-> Timeout])

\* urlopen returns a response; its body is read and decoded.
UrlopenOk ==
  /\ pc = "urlopen"
  /\ network' = Sent
  /\ \E status \in OkCodes, bytes \in ResponseBodies :
       /\ response' = Answer("response", status, bytes)
       /\ IF DecodeRaises(bytes)
          THEN /\ Die(Traceback("UnicodeDecodeError"))
               /\ UNCHANGED resp_body
          ELSE /\ resp_body' = bytes
               /\ pc' = "loads"
               /\ UNCHANGED << stderr, exit_code >>
  /\ UNCHANGED << getenv_name, getenv_entry, resolved, payload, body_str, body_bytes,
                  signing_secret, digest, signature_header, req, dumps_calls, hmac_msg,
                  data, stdout >>

\* urlopen raises HTTPError and no except clause catches it.
UrlopenHTTPErrorUncaught ==
  /\ pc = "urlopen"
  /\ network' = Sent
  /\ \E code \in ErrorCodes, bytes \in ErrorBodies :
       /\ response' = Answer("HTTPError", code, bytes)
       /\ Die(Traceback("HTTPError"))
  /\ UNCHANGED << getenv_name, getenv_entry, resolved, payload, body_str, body_bytes,
                  signing_secret, digest, signature_header, req, dumps_calls, hmac_msg,
                  resp_body, data, stdout >>

\* urlopen raises HTTPError: the except clause reads the body and exits.
UrlopenHTTPError ==
  /\ pc = "urlopen"
  /\ network' = Sent
  /\ \E code \in ErrorCodes, bytes \in ErrorBodies :
       /\ response' = Answer("HTTPError", code, bytes)
       /\ Die(Message("HTTP {e.code} error from B12: {err_body}", << >>, code,
                      DecodeReplace(bytes), None))
  /\ UNCHANGED << getenv_name, getenv_entry, resolved, payload, body_str, body_bytes,
                  signing_secret, digest, signature_header, req, dumps_calls, hmac_msg,
                  resp_body, data, stdout >>

\* urlopen raises URLError and the request is sent again.
UrlopenURLErrorRetried ==
  /\ pc = "urlopen"
  /\ Len(network) < 3
  /\ network' = Sent
  /\ response' = Answer("URLError", 0, << >>)
  /\ UNCHANGED << pc, stderr, exit_code >>
  /\ UNCHANGED << getenv_name, getenv_entry, resolved, payload, body_str, body_bytes,
                  signing_secret, digest, signature_header, req, dumps_calls, hmac_msg,
                  resp_body, data, stdout >>

\* urlopen raises URLError (no connection, or the wait of Timeout seconds
\* is over): nothing catches it.
UrlopenURLError ==
  /\ pc = "urlopen"
  /\ network' = Sent
  /\ response' = Answer("URLError", 0, << >>)
  /\ Die(Traceback("URLError"))
  /\ UNCHANGED << getenv_name, getenv_entry, resolved, payload, body_str, body_bytes,
                  signing_secret, digest, signature_header, req, dumps_calls, hmac_msg,
                  resp_body, data, stdout >>

\* data = json.loads(resp_body), or the exit of the except clause
JsonLoads ==
  /\ pc = "loads"
  /\ LET r == json_loads(resp_body) IN
     IF r.ok
     THEN /\ data' = r.val
          /\ pc' = "validate"
          /\ UNCHANGED << stderr, exit_code >>
     ELSE /\ Die(Message("Non-JSON response from B12: {resp_body}", << >>, 0, resp_body, None))
          /\ UNCHANGED data
  /\ UNCHANGED << getenv_name, getenv_entry, resolved, payload, body_str, body_bytes,
                  signing_secret, digest, signature_header, req, dumps_calls, hmac_msg,
                  network, response, resp_body, stdout >>

\* The check of data and the print of the receipt; the end of main().
Validate ==
  /\ pc = "validate"
  /\ IF ~HasGet(data)
     THEN /\ Die(Traceback("AttributeError"))
          /\ UNCHANGED stdout
     ELSE IF Rejected(data)
     THEN /\ Die(Message("Unexpected response from B12: {data}", << >>, 0, << >>, data))
          /\ UNCHANGED stdout
     ELSE /\ stdout' = Append(stdout, DictItem(data, "receipt"))
          /\ pc' = "exit"
          /\ exit_code' = << 0 >>
          /\ UNCHANGED stderr
  /\ UNCHANGED << getenv_name, getenv_entry, resolved, payload, body_str, body_bytes,
                  signing_secret, digest, signature_header, req, dumps_calls, hmac_msg,
                  network, response, resp_body, data >>

Next ==
  \/ RequireEnv
  \/ BuildPayload
  \/ Serialize
  \/ Sign
  \/ BuildRequest
  \/ UrlopenOk
  \/ UrlopenHTTPError
  \/ UrlopenURLError
  \/ JsonLoads
  \/ Validate

Spec == Init /\ [][Next]_vars

TypeOK ==
  /\ pc \in { "require_env", "payload", "dumps", "sign", "request", "urlopen", "loads",
              "validate", "exit" }
  /\ Len(resolved) <= 6
  /\ exit_code \in { << >>, << 0 >>, << 1 >> }

\* ---------------------------------------------------------------- claims

Required == { RequiredVars[i] : i \in 1..Len(RequiredVars) }

\* Unset, empty, or nothing but whitespace.
IsBlank(entry) ==
  ~entry.set \/ \A i \in 1..Len(entry.value) : entry.value[i] \in Whitespace

\* v is raw without the whitespace at its two ends, and is not empty.
IsTrimOf(v, raw) ==
  /\ v # << >>
  /\ v[1] \notin Whitespace
  /\ v[Len(v)] \notin Whitespace
  /\ \E i \in 1..Len(raw) :
       /\ i + Len(v) - 1 <= Len(raw)
       /\ SubSeq(raw, i, i + Len(v) - 1) = v
       /\ \A j \in 1..Len(raw) : (j < i \/ j > i + Len(v) - 1) => raw[j] \in Whitespace

Exited == pc = "exit" /\ Len(exit_code) = 1

ExitedNonZero == Exited /\ exit_code[1] # 0

MissingText == "Missing required env var: {name}"

\* C1: when a required variable is unset, empty or whitespace-only, the run
\* has exited non-zero, naming it, and no request was built or sent; a
\* request is built or sent only after all six values were resolved.
C1_MissingEnvAbortsBeforeNetwork ==
  /\ (getenv_name \in Required /\ IsBlank(getenv_entry)) =>
       /\ ExitedNonZero
       /\ stderr.text = MissingText
       /\ stderr.name = getenv_name
       /\ network = << >>
       /\ req = NoRequest
  /\ (network # << >> \/ req # NoRequest) =>
       /\ Len(resolved) = Len(RequiredVars)
       /\ \A i \in 1..Len(resolved) : ~IsBlank(EnvSet(resolved[i]))

\* The last required variable holds whitespace only: the run has ended.
C1_Witness ==
  /\ pc = "exit"
  /\ getenv_name = V_GITHUB_RUN_ID
  /\ getenv_entry.set
  /\ getenv_entry.value # << >>
  /\ IsBlank(getenv_entry)
  /\ network = << >>

\* C2: in a run that reached the network call, json.dumps ran once, hmac.new
\* was given one message, and that message is the body of every request
\* sent; before the call, the request built holds the signed bytes.
C2_SignedBytesAreSentBytes ==
  /\ dumps_calls <= 1
  /\ Len(hmac_msg) <= 1
  /\ req # NoRequest => (hmac_msg # << >> /\ req.data = hmac_msg[1])
  /\ network # << >> =>
       /\ dumps_calls = 1
       /\ Len(hmac_msg) = 1
       /\ body_bytes = hmac_msg[1]
       /\ \A i \in 1..Len(network) : network[i].request.data = hmac_msg[1]

\* A request went out whose body has a two-byte character in it.
C2_Witness ==
  /\ Len(network) = 1
  /\ pc = "loads"
  /\ \E i \in 1..Len(network[1].request.data) : network[1].request.data[i] = 195

\* The body is a JSON object with a truthy success and a receipt.
GoodBody(bytes) ==
  LET j == json_loads(bytes) IN
  /\ j.ok
  /\ j.val.t = "dict"
  /\ HasKey(j.val, "success")
  /\ Truthy(DictItem(j.val, "success"))
  /\ HasKey(j.val, "receipt")

\* C3: the run exits 0 exactly when the answer was a 2xx response whose body
\* is a JSON object with a truthy success and a receipt, and then the
\* receipt is all of stdout; every other exit is non-zero with stdout empty,
\* and nothing is printed while the run goes on.
C3_ExitZeroIffAccepted ==
  /\ pc # "exit" => (stdout = << >> /\ exit_code = << >>)
  /\ pc = "exit" =>
       IF response.kind = "response" /\ GoodBody(response.body)
       THEN /\ exit_code = << 0 >>
            /\ stdout = << DictItem(json_loads(response.body).val, "receipt") >>
       ELSE /\ ExitedNonZero
            /\ stdout = << >>

\* The stub of the specification: abc-123 printed, exit code 0.
C3_Witness ==
  /\ pc = "exit"
  /\ response.body = ExBody
  /\ exit_code = << 0 >>
  /\ stdout = << PyStr("abc-123") >>

NonJsonText == "Non-JSON response from B12: {resp_body}"

UnexpectedText == "Unexpected response from B12: {data}"

\* C4: after a 2xx response whose body is a JSON object with a falsy success
\* (a receipt or not), with no success or with no receipt, or is not valid
\* JSON, the run exits non-zero, the message holds the parsed object (the raw
\* body when it is not JSON), and nothing is printed.
C4_RejectedBodyIsReported ==
  (pc = "exit" /\ response.kind = "response") =>
    LET j == json_loads(response.body) IN
    /\ ~j.ok =>
         /\ ExitedNonZero
         /\ stderr.text = NonJsonText
         /\ stderr.body = response.body
         /\ stdout = << >>
    /\ (j.ok /\ j.val.t = "dict" /\ ~GoodBody(response.body)) =>
         /\ ExitedNonZero
         /\ stderr.text = UnexpectedText
         /\ stderr.value = j.val
         /\ stdout = << >>

HttpErrorText == "HTTP {e.code} error from B12: {err_body}"

\* C5: after an HTTP error status the run has exited non-zero with a message
\* that holds the status code and the text of the body (an undecodable byte
\* replaced), and neither json.loads nor the check of data nor the print ran.
C5_HttpErrorIsReported ==
  response.kind = "HTTPError" =>
    /\ ExitedNonZero
    /\ stderr.text = HttpErrorText
    /\ stderr.code = response.status
    /\ Len(stderr.body) = Len(response.body)
    /\ \A i \in 1..Len(response.body) :
         stderr.body[i] =
           IF response.body[i] = InvalidByte THEN ReplacementChar ELSE response.body[i]
    /\ resp_body = << >>
    /\ data = None
    /\ stdout = << >>

\* The stub of the specification: HTTP 500 with the body "server error".
C5_Witness ==
  /\ pc = "exit"
  /\ response = Answer("HTTPError", 500, << P("server"), P(" "), P("error") >>)
  /\ stderr.code = 500

\* The state of section 4.6 a statement of main() belongs to: 0 before the
\* environment is resolved, 1 EnvironmentResolved, 2 PayloadBuilt,
\* 3 Serialized&Signed, 4 ResponseReceived, 5 Validated.
Stage(p, code) ==
  IF p = "require_env" THEN 0
  ELSE IF p = "payload" THEN 1
  ELSE IF p \in { "dumps", "sign" } THEN 2
  ELSE IF p \in { "request", "urlopen" } THEN 3
  ELSE IF p \in { "loads", "validate" } THEN 4
  ELSE IF code = << 0 >> THEN 5
  ELSE 6

Failed(p, code) == p = "exit" /\ code # << 0 >>

\* C6: a step of the run keeps its state or moves to the next one, never
\* back; or it fails, and then with a non-zero exit; nothing happens after
\* the exit; and no run sends more than one request.
C6_StagesInOrderOnePost ==
  [][ /\ pc # "exit"
      /\ \/ Stage(pc', exit_code') \in { Stage(pc, exit_code), Stage(pc, exit_code) + 1 }
         \/ Failed(pc', exit_code') /\ Len(exit_code') = 1 /\ exit_code'[1] # 0
      /\ Len(network') <= 1
      /\ Len(network') >= Len(network)
      /\ network' # network => Stage(pc, exit_code) = 3 ]_vars

\* A run went through every state: one request, the receipt printed.
C6_Witness ==
  /\ pc = "exit"
  /\ exit_code = << 0 >>
  /\ Len(network) = 1
  /\ stdout # << >>

SixKeys ==
  { K_timestamp, K_name, K_email, K_resume_link, K_repository_link, K_action_run_link }

\* C7: a record that exists has exactly the six keys, each with a non-empty
\* value, and name, email and resume_link are the first three resolved
\* values; a resolved value is the whitespace-trimmed value of its variable
\* and never changes afterwards; no record exists in a run that ended on a
\* missing or blank variable.
C7_RecordCompleteAndTrimmed ==
  /\ [](/\ payload # << >> =>
             /\ Len(payload) = 6
             /\ Keys(payload) = SixKeys
             /\ \A i \in 1..Len(payload) : payload[i].v # << >>
             /\ Len(resolved) = 6
             /\ Value(payload, K_name) = resolved[1]
             /\ Value(payload, K_email) = resolved[2]
             /\ Value(payload, K_resume_link) = resolved[3]
        /\ body_str # << >> => payload # << >>
        /\ (stderr.text = MissingText \/ Len(resolved) < 6) =>
             (payload = << >> /\ body_str = << >>)
        /\ \A k \in 1..Len(RequiredVars) :
             (getenv_name = RequiredVars[k] /\ Len(resolved) = k) =>
               IsTrimOf(resolved[k], getenv_entry.value))
  /\ [][ /\ Len(resolved') >= Len(resolved)
         /\ SubSeq(resolved', 1, Len(resolved)) = resolved
         /\ payload # << >> => payload' = payload ]_vars

\* The record is serialized, and the last value read had whitespace around it.
C7_Witness ==
  /\ pc = "sign"
  /\ body_str # << >>
  /\ getenv_name = V_GITHUB_RUN_ID
  /\ Len(getenv_entry.value) > Len(resolved[6])
  /\ Value(payload, K_name) = << "Z", "o", "U+00E9" >>

ExRepositoryLink ==
  << "h", "t", "t", "p", "s", ":", "/", "/", "g", "i", "t", "h", "u", "b", ".", "c", "o", "m",
     "/", "a", "c", "m", "e", "/", "w", "i", "d", "g", "e", "t" >>

ExActionRunLink ==
  ExRepositoryLink \o
  << "/", "a", "c", "t", "i", "o", "n", "s", "/", "r", "u", "n", "s", "/",
     "1", "2", "3", "4", "5" >>

\* C8: the record's repository_link is server_url, "/" and repo, and its
\* action_run_link is repository_link, "/actions/runs/" and run_id, whatever
\* the three resolved values are; https://github.com, acme/widget and 12345
\* give the two links of the specification.
C8_DerivedLinks ==
  payload # << >> =>
    /\ Value(payload, K_repository_link) = resolved[4] \o << "/" >> \o resolved[5]
    /\ Value(payload, K_action_run_link) =
         Value(payload, K_repository_link) \o ActionsRuns \o resolved[6]
    /\ (resolved[4] = ExServerUrl /\ resolved[5] = ExRepo /\ resolved[6] = ExRunId) =>
         /\ Value(payload, K_repository_link) = ExRepositoryLink
         /\ Value(payload, K_action_run_link) = ExActionRunLink

\* The example of the specification, with the links it names.
C8_Witness ==
  /\ payload # << >>
  /\ resolved[4] = ExServerUrl
  /\ resolved[5] = ExRepo
  /\ resolved[6] = ExRunId
  /\ Value(payload, K_action_run_link) = ExActionRunLink

\* C9: once the secret was read, the key is the UTF-8 of the fallback literal
\* when B12_SIGNING_SECRET is unset and of its value, as it is, when set
\* (empty and whitespace-only values too), and the digest is the HMAC of the
\* serialized bytes under that key; reading the secret always leads on to
\* building the request; key, digest and bytes never change afterwards; and
\* a request sent carries those bytes and "sha256=" and that digest as its
\* X-Signature-256.
C9_KeyAndSignatureHeader ==
  /\ [](getenv_name = V_B12_SIGNING_SECRET =>
          /\ signing_secret =
               EncodeUtf8(IF getenv_entry.set THEN getenv_entry.value ELSE FallbackSecret)
          /\ stderr.text # MissingText
          /\ pc = "request" =>
               (~Exited /\ digest = HexDigest(signing_secret, body_bytes))
          /\ \A i \in 1..Len(network) :
               /\ network[i].request.data = body_bytes
               /\ network[i].request.x_signature_256 = Sha256Prefix \o digest)
  /\ [][ /\ pc = "sign" => pc' = "request"
         /\ digest # << >> =>
              UNCHANGED << getenv_entry, signing_secret, digest, body_bytes >> ]_vars

\* A request was sent that was signed with the empty key of an empty secret.
C9_Witness ==
  /\ getenv_name = V_B12_SIGNING_SECRET
  /\ getenv_entry = EnvSet(<< >>)
  /\ signing_secret = << >>
  /\ Len(network) = 1

\* C10: after a 2xx response whose body is valid JSON, of any shape but an
\* object with a truthy success and a receipt, the run has exited non-zero
\* with the "Unexpected response" message that holds the parsed value.
C10_AnyOtherJsonIsUnexpected ==
  (pc = "exit" /\ response.kind = "response") =>
    LET j == json_loads(response.body) IN
    (j.ok /\ ~GoodBody(response.body)) =>
      /\ ExitedNonZero
      /\ stderr.text = UnexpectedText
      /\ stderr.value = j.val

====
